---- MODULE Spec2Model ----
(***************************************************************************)
(* Model of the tunnel client's connection lifecycle (src/lib/Tunnel.js):  *)
(* session negotiation (_init), the self-healing slot pool (_establish),   *)
(* close(), and the IP change monitor (_startIpChangeDetection,            *)
(* _checkForIpChange, _notifyIpChange).  Every action is one event-loop    *)
(* turn: a call from the user, a timer firing, or an I/O completion.       *)
(*                                                                         *)
(* TunnelCluster is not part of the sources at hand; its slots follow the  *)
(* lifecycle Connecting -> Open -> Dead of the specification, with a       *)
(* destroyed slot reporting 'dead' once it has closed.  The Tunnel has     *)
(* 'error' listeners attached, and checkIpInterval is left at its default. *)
(***************************************************************************)
EXTENDS Integers, Sequences, FiniteSets, Bags, TLC

(* ------------------------------ bounds --------------------------------- *)
MaxConn == 2
MaxDeaths == 2
MaxInitRequests == 3
MaxChecks == 2
MaxCloseCalls == 2
MaxSignals == 1

(* ------------------------- program constants --------------------------- *)
RETRY_DELAY == 1000
CHECK_INTERVAL == 15000

IPs == {"1.2.3.4", "5.6.7.8"}
NoIp == ""
BrokerMessage == "message from the broker"
ConflictFallback == "The requested subdomain is already in use by your IP address. Please choose a different subdomain."
ServerFallback == "tunnel server returned an error, please try again"
NoCode == "NONE"

(* A response body: absent, or present with a (possibly empty) message.   *)
Bodies ==
  { [present |-> FALSE, message |-> ""],
    [present |-> TRUE, message |-> ""],
    [present |-> TRUE, message |-> BrokerMessage] }

(* `(body && body.message) || fallback` *)
MessageOr(body, fallback) ==
  IF body.present /\ body.message # "" THEN body.message ELSE fallback

NoError == [code |-> NoCode, message |-> ""]

VARIABLES
  opts,             \* this.opts: detectIpChanges, monitorNetwork
  closed,           \* this.closed
  currentIp,        \* this.currentIp
  ipCheckInterval,  \* this.ipCheckInterval: 0 = null, else the period (ms)
  initState,        \* position of _init/getUrl: idle, requesting, retryWait, done
  retryTimer,       \* pending setTimeout(getUrl, d): 0 = none, else d
  initRequests,     \* number of negotiation GETs issued
  replies,          \* the replies to the negotiation GETs so far, in order
  cbCalls,          \* number of invocations of open()'s callback
  cbErr,            \* the err argument of the last invocation
  established,      \* _establish has run (this.tunnelCluster exists)
  max_conn,         \* info.max_conn
  slots,            \* number of pool slots per state
  tunnelCount,      \* _establish's tunnelCount
  urlListener,      \* the once('open') listener is still registered
  urlEmits,         \* number of 'url' notifications
  closeCalls,       \* number of close() calls
  closeEmits,       \* number of 'close' notifications
  checkTimers,      \* pending setTimeout(() => _checkForIpChange(), 1000)
  sigcontListeners, \* listeners registered on process 'SIGCONT'
  signals,          \* number of SIGCONT signals delivered
  echoPending,      \* _checkForIpChange calls awaiting _getCurrentIp
  notifyPending,    \* bag of (oldIp, newIp) of _notifyIpChange calls in flight
  ipEchoRequests,   \* number of GET /api/ip requests issued
  notifyRequests,   \* number of POST ip-change requests issued
  emitted,          \* notifications emitted by the last step, in order
  echoFailedAt,     \* history: ipEchoRequests when an IP-echo request last failed (0: never)
  argv,             \* bin: parsed command line (autoReconnect)
  instances,        \* bin: the Tunnel objects created by createTunnel, in order
  tunnel,           \* bin: `tunnel`, index of the instance it holds (0: undefined)
  reconnectAttempts,\* bin: reconnectAttempts
  delaying,         \* bin: attemptReconnect calls awaiting RECONNECT_DELAY
  exited,           \* bin: "running", or how process.exit(1) was reached
  called,           \* bin: attemptReconnect invocations made by the last step
  resetFrom,        \* bin: reconnectAttempts just before its last reset (-1: none)
  brokerUp,         \* the broker is reachable
  ipChanges,        \* number of address changes observed by the instances
  interval          \* checkIpInterval as configured and the timer period derived from it

libVars ==
  << opts, closed, currentIp, ipCheckInterval, initState, retryTimer,
     initRequests, replies, cbCalls, cbErr, established, max_conn, slots,
     tunnelCount, urlListener, urlEmits, closeCalls, closeEmits, checkTimers,
     sigcontListeners, signals, echoPending, notifyPending, ipEchoRequests,
     notifyRequests, emitted, echoFailedAt >>

histVars == << echoFailedAt >>

cliVars ==
  << argv, instances, tunnel, reconnectAttempts, delaying, exited, called,
     resetFrom, brokerUp, ipChanges >>

cfgVars == << interval >>

vars == << libVars, cliVars, cfgVars >>

negVars == << initState, retryTimer, initRequests, replies, cbCalls, cbErr >>
poolVars == << established, max_conn, slots, tunnelCount, urlListener, urlEmits >>
monVars ==
  << checkTimers, sigcontListeners, echoPending, notifyPending,
     ipEchoRequests, notifyRequests >>

(* ------------------------------ events --------------------------------- *)
Ev(type) ==
  [type |-> type, oldIp |-> NoIp, newIp |-> NoIp, success |-> FALSE,
   code |-> NoCode, message |-> ""]

IpChangeEv(oldIp, newIp, success, err) ==
  [type |-> "ip-change", oldIp |-> oldIp, newIp |-> newIp, success |-> success,
   code |-> err.code, message |-> err.message]

ErrorEv(err) ==
  [type |-> "error", oldIp |-> NoIp, newIp |-> NoIp, success |-> FALSE,
   code |-> err.code, message |-> err.message]

(* ---------------------------- constructor ------------------------------ *)
Init ==
  /\ opts \in [detectIpChanges : BOOLEAN, monitorNetwork : BOOLEAN]
  /\ closed = FALSE
  /\ currentIp = NoIp
  /\ ipCheckInterval = 0
  /\ initState = "idle"
  /\ retryTimer = 0
  /\ initRequests = 0
  /\ replies = << >>
  /\ cbCalls = 0
  /\ cbErr = NoError
  /\ established = FALSE
  /\ max_conn = 0
  /\ slots = [Connecting |-> 0, Open |-> 0, Destroyed |-> 0, Dead |-> 0]
  /\ tunnelCount = 0
  /\ urlListener = FALSE
  /\ urlEmits = 0
  /\ closeCalls = 0
  /\ closeEmits = 0
  /\ checkTimers = 0
  /\ sigcontListeners = 0
  /\ signals = 0
  /\ echoPending = 0
  /\ notifyPending = EmptyBag
  /\ ipEchoRequests = 0
  /\ notifyRequests = 0
  /\ emitted = << >>
  /\ echoFailedAt = 0
  /\ argv = [autoReconnect |-> TRUE]
  /\ instances = << >>
  /\ tunnel = 0
  /\ reconnectAttempts = 0
  /\ delaying = 0
  /\ exited = "running"
  /\ called = 0
  /\ resetFrom = -1
  /\ brokerUp = TRUE
  /\ ipChanges = 0
  /\ interval = [via |-> "none", given |-> [kind |-> "absent", n |-> 0], ms |-> 0]

(* ------------------------- Tunnel._getInfo ----------------------------- *)
(* max_conn: max_conn_count || 1 (0 stands for an absent count).           *)
GetInfoMaxConn(max_conn_count) ==
  IF max_conn_count # 0 THEN max_conn_count ELSE 1

(* ------------------------ Tunnel._establish ---------------------------- *)
(* new TunnelCluster, listeners registered, then max_conn calls of         *)
(* tunnelCluster.open(), each creating one slot in state Connecting.       *)
Establish(info) ==
  /\ established' = TRUE
  /\ max_conn' = info.max_conn
  /\ urlListener' = TRUE
  /\ tunnelCount' = 0
  /\ slots' = [slots EXCEPT !.Connecting = @ + info.max_conn]
  /\ UNCHANGED urlEmits

(* ------------------ Tunnel._startIpChangeDetection --------------------- *)
StartIpChangeDetection ==
  /\ ipCheckInterval' = CHECK_INTERVAL
  /\ sigcontListeners' =
       IF opts.monitorNetwork THEN sigcontListeners + 1 ELSE sigcontListeners
  /\ checkTimers' = checkTimers + 1

(* ------------------- Tunnel._stopIpChangeDetection --------------------- *)
(* clearInterval; removeListener is given a function that was never        *)
(* registered, so the SIGCONT listeners stay.                              *)
StopIpChangeDetection ==
  /\ ipCheckInterval' = 0
  /\ UNCHANGED sigcontListeners

(* --------------------------- Tunnel._init ------------------------------ *)
(* A reply to the negotiation GET: resolved or rejected by the HTTP        *)
(* client; status 0 stands for a rejection without a response.             *)
InitReplies ==
  [resolved : {TRUE}, status : {200}, body : {[present |-> TRUE, message |-> ""]},
   ip : IPs, max_conn_count : 0..MaxConn]
  \cup [resolved : {TRUE}, status : {409, 500}, body : Bodies,
        ip : {NoIp}, max_conn_count : {0}]
  \cup [resolved : {FALSE}, status : {409}, body : Bodies,
        ip : {NoIp}, max_conn_count : {0}]
  \cup [resolved : {FALSE}, status : {500}, body : {[present |-> TRUE, message |-> BrokerMessage]},
        ip : {NoIp}, max_conn_count : {0}]
  \cup [resolved : {FALSE}, status : {0}, body : {[present |-> FALSE, message |-> ""]},
        ip : {NoIp}, max_conn_count : {0}]

(* a conflict error that lost its code *)
ConflictError_NoCode(body) ==
  [code |-> NoCode, message |-> MessageOr(body, ConflictFallback)]

ConflictError(body) ==
  [code |-> "ESUBDOMAINCONFLICT", message |-> MessageOr(body, ConflictFallback)]

ServerError(body) ==
  [code |-> NoCode, message |-> MessageOr(body, ServerFallback)]

(* getUrl: issue the GET *)
GetUrl ==
  /\ initRequests' = initRequests + 1
  /\ initState' = "requesting"
  /\ retryTimer' = 0

(* open()'s callback given to _init, error case: return cb(err) *)
OpenFailed(err) ==
  /\ initState' = "done"
  /\ cbCalls' = cbCalls + 1
  /\ cbErr' = err
  /\ UNCHANGED << retryTimer, initRequests >>
  /\ UNCHANGED << currentIp, ipCheckInterval, checkTimers, sigcontListeners >>
  /\ UNCHANGED poolVars

(* success case: getInfo(body), _establish(info), start detection, cb() *)
OpenSucceeded(r) ==
  /\ initState' = "done"
  /\ currentIp' = r.ip
  /\ Establish([max_conn |-> GetInfoMaxConn(r.max_conn_count)])
  /\ IF opts.detectIpChanges
       THEN StartIpChangeDetection
       ELSE UNCHANGED << ipCheckInterval, checkTimers, sigcontListeners >>
  /\ cbCalls' = cbCalls + 1
  /\ cbErr' = NoError
  /\ UNCHANGED << retryTimer, initRequests >>

(* a retry that also reports the failure to the open callback *)
ScheduleRetry_CallsBack(r) ==
  /\ initState' = "retryWait"
  /\ retryTimer' = RETRY_DELAY
  /\ cbCalls' = cbCalls + 1
  /\ cbErr' = [code |-> NoCode, message |-> "Network Error"]
  /\ UNCHANGED initRequests
  /\ UNCHANGED << currentIp, ipCheckInterval, checkTimers, sigcontListeners >>
  /\ UNCHANGED poolVars

(* .catch fallthrough: setTimeout(getUrl, 1000) *)
ScheduleRetry(r) ==
  /\ initState' = "retryWait"
  /\ retryTimer' = RETRY_DELAY
  /\ UNCHANGED << initRequests, cbCalls, cbErr >>
  /\ UNCHANGED << currentIp, ipCheckInterval, checkTimers, sigcontListeners >>
  /\ UNCHANGED poolVars

(* Tunnel.open(cb): _init -> getUrl *)
Open ==
  /\ initState = "idle"
  /\ GetUrl
  /\ emitted' = << >>
  /\ UNCHANGED << opts, closed, currentIp, ipCheckInterval, replies, cbCalls,
                  cbErr, closeCalls, closeEmits, signals >>
  /\ UNCHANGED poolVars
  /\ UNCHANGED monVars
  /\ UNCHANGED cliVars
  /\ UNCHANGED cfgVars
  /\ UNCHANGED histVars

(* the .then / .catch handlers of the negotiation GET *)
InitReply(r) ==
  /\ initState = "requesting"
  /\ IF r.resolved
       THEN IF r.status = 409 THEN OpenFailed(ConflictError(r.body))
            ELSE IF r.status # 200 THEN OpenFailed(ServerError(r.body))
            ELSE OpenSucceeded(r)
       ELSE IF r.status = 409 THEN OpenFailed(ConflictError(r.body))
            ELSE ScheduleRetry(r)
  /\ replies' = Append(replies, [resolved |-> r.resolved, status |-> r.status, body |-> r.body])
  /\ emitted' = << >>
  /\ UNCHANGED << opts, closed, closeCalls, closeEmits, signals >>
  /\ UNCHANGED << echoPending, notifyPending, ipEchoRequests, notifyRequests >>
  /\ UNCHANGED cliVars
  /\ UNCHANGED cfgVars
  /\ UNCHANGED histVars

(* the retry timer fires: getUrl again *)
RetryTimerFires ==
  /\ initState = "retryWait"
  /\ initRequests < MaxInitRequests
  /\ GetUrl
  /\ emitted' = << >>
  /\ UNCHANGED << opts, closed, currentIp, ipCheckInterval, replies, cbCalls,
                  cbErr, closeCalls, closeEmits, signals >>
  /\ UNCHANGED poolVars
  /\ UNCHANGED monVars
  /\ UNCHANGED cliVars
  /\ UNCHANGED cfgVars
  /\ UNCHANGED histVars

(* ----------------------- TunnelCluster (pool) -------------------------- *)
(* tunnelCluster.open(): one more slot starts connecting.                  *)
ClusterOpen(s) == [s EXCEPT !.Connecting = @ + 1]

(* a 'dead' listener that forgets the replacement *)
DeadListener_NoReplacement(s) == s

(* the 'dead' listener of _establish, after tunnelCount--                  *)
DeadListener(s) == IF closed THEN s ELSE ClusterOpen(s)

(* an 'open' listener that never looks at closed *)
OpenListener_IgnoresClosed(s) ==
  [s EXCEPT !.Connecting = @ - 1, !.Open = @ + 1]

(* an 'open' listener that destroys every slot that opens *)
OpenListener_AlwaysDestroys(s) ==
  [s EXCEPT !.Connecting = @ - 1, !.Destroyed = @ + 1]

(* the 'open' listener of _establish, after tunnelCount++: a slot that     *)
(* opens on a closed Tunnel is destroyed at once.                          *)
OpenListener(s) ==
  IF closed
    THEN [s EXCEPT !.Connecting = @ - 1, !.Destroyed = @ + 1]
    ELSE [s EXCEPT !.Connecting = @ - 1, !.Open = @ + 1]

(* emit('close'): every registered closeHandler destroys its open slot.    *)
CloseHandlers(s) == [s EXCEPT !.Open = 0, !.Destroyed = @ + s.Open]

(* number of tunnelCluster.open() calls so far *)
OpenAttempts == slots.Connecting + slots.Open + slots.Destroyed + slots.Dead

(* an 'open' step whose 'url' listener was registered with on, not once *)
SlotOpened_UrlEveryTime ==
  /\ established
  /\ slots.Connecting > 0
  /\ urlListener' = urlListener
  /\ urlEmits' = IF urlListener THEN urlEmits + 1 ELSE urlEmits
  /\ emitted' = IF urlListener THEN << Ev("url") >> ELSE << >>
  /\ tunnelCount' = tunnelCount + 1
  /\ slots' = OpenListener(slots)
  /\ UNCHANGED << opts, closed, currentIp, ipCheckInterval, established, max_conn,
                  closeCalls, closeEmits, signals >>
  /\ UNCHANGED negVars
  /\ UNCHANGED monVars
  /\ UNCHANGED cliVars
  /\ UNCHANGED cfgVars
  /\ UNCHANGED histVars

(* a connecting slot reaches the broker: tunnelCluster emits 'open'        *)
SlotOpened ==
  /\ established
  /\ slots.Connecting > 0
  /\ urlListener' = FALSE
  /\ urlEmits' = IF urlListener THEN urlEmits + 1 ELSE urlEmits
  /\ emitted' = IF urlListener THEN << Ev("url") >> ELSE << >>
  /\ tunnelCount' = tunnelCount + 1
  /\ slots' = OpenListener(slots)
  /\ UNCHANGED << opts, closed, currentIp, ipCheckInterval, established, max_conn,
                  closeCalls, closeEmits, signals >>
  /\ UNCHANGED negVars
  /\ UNCHANGED monVars
  /\ UNCHANGED cliVars
  /\ UNCHANGED cfgVars
  /\ UNCHANGED histVars

(* a 'dead' step that is reported as an 'error' *)
SlotDies_EmitsError ==
  /\ slots.Open > 0
  /\ slots.Dead < MaxDeaths
  /\ tunnelCount' = tunnelCount - 1
  /\ slots' = DeadListener([slots EXCEPT !.Open = @ - 1, !.Dead = @ + 1])
  /\ emitted' = << ErrorEv([code |-> NoCode, message |-> "dead"]) >>
  /\ UNCHANGED << opts, closed, currentIp, ipCheckInterval, established, max_conn,
                  urlListener, urlEmits, closeCalls, closeEmits, signals >>
  /\ UNCHANGED negVars
  /\ UNCHANGED monVars
  /\ UNCHANGED cliVars
  /\ UNCHANGED cfgVars
  /\ UNCHANGED histVars

(* an open slot closes unexpectedly: tunnelCluster emits 'dead'            *)
SlotDies ==
  /\ slots.Open > 0
  /\ slots.Dead < MaxDeaths
  /\ tunnelCount' = tunnelCount - 1
  /\ slots' = DeadListener([slots EXCEPT !.Open = @ - 1, !.Dead = @ + 1])
  /\ emitted' = << >>
  /\ UNCHANGED << opts, closed, currentIp, ipCheckInterval, established, max_conn,
                  urlListener, urlEmits, closeCalls, closeEmits, signals >>
  /\ UNCHANGED negVars
  /\ UNCHANGED monVars
  /\ UNCHANGED cliVars
  /\ UNCHANGED cfgVars
  /\ UNCHANGED histVars

(* a destroyed slot finishes closing: tunnelCluster emits 'dead'           *)
DestroyedSlotDies ==
  /\ slots.Destroyed > 0
  /\ tunnelCount' = tunnelCount - 1
  /\ slots' = DeadListener([slots EXCEPT !.Destroyed = @ - 1, !.Dead = @ + 1])
  /\ emitted' = << >>
  /\ UNCHANGED << opts, closed, currentIp, ipCheckInterval, established, max_conn,
                  urlListener, urlEmits, closeCalls, closeEmits, signals >>
  /\ UNCHANGED negVars
  /\ UNCHANGED monVars
  /\ UNCHANGED cliVars
  /\ UNCHANGED cfgVars
  /\ UNCHANGED histVars

(* --------------------------- Tunnel.close ------------------------------ *)
Close ==
  /\ closeCalls < MaxCloseCalls
  /\ closeCalls' = closeCalls + 1
  /\ closed' = TRUE
  /\ StopIpChangeDetection
  /\ closeEmits' = closeEmits + 1
  /\ emitted' = << Ev("close") >>
  /\ slots' = CloseHandlers(slots)
  /\ UNCHANGED << opts, currentIp, established, max_conn, tunnelCount, urlListener,
                  urlEmits, signals, checkTimers, echoPending, notifyPending,
                  ipEchoRequests, notifyRequests >>
  /\ UNCHANGED negVars
  /\ UNCHANGED cliVars
  /\ UNCHANGED cfgVars
  /\ UNCHANGED histVars

(* ----------------------- IP change monitor ----------------------------- *)
(* _checkForIpChange up to its first await: _getCurrentIp issues the GET.  *)
CheckForIpChange ==
  /\ ipEchoRequests' = ipEchoRequests + 1
  /\ echoPending' = echoPending + 1

(* the setInterval callback of _startIpChangeDetection *)
IntervalTick ==
  /\ ipCheckInterval # 0
  /\ IF closed
       THEN /\ StopIpChangeDetection
            /\ UNCHANGED << ipEchoRequests, echoPending >>
       ELSE /\ ipEchoRequests < MaxChecks
            /\ CheckForIpChange
            /\ UNCHANGED << ipCheckInterval, sigcontListeners >>
  /\ emitted' = << >>
  /\ UNCHANGED << opts, closed, currentIp, closeCalls, closeEmits, signals,
                  checkTimers, notifyPending, notifyRequests >>
  /\ UNCHANGED negVars
  /\ UNCHANGED poolVars
  /\ UNCHANGED cliVars
  /\ UNCHANGED cfgVars
  /\ UNCHANGED histVars

(* a setTimeout(() => this._checkForIpChange(), 1000) fires *)
CheckTimerFires ==
  /\ checkTimers > 0
  /\ ipEchoRequests < MaxChecks
  /\ checkTimers' = checkTimers - 1
  /\ CheckForIpChange
  /\ emitted' = << >>
  /\ UNCHANGED << opts, closed, currentIp, ipCheckInterval, closeCalls, closeEmits,
                  signals, sigcontListeners, notifyPending, notifyRequests >>
  /\ UNCHANGED negVars
  /\ UNCHANGED poolVars
  /\ UNCHANGED cliVars
  /\ UNCHANGED cfgVars
  /\ UNCHANGED histVars

(* the process receives SIGCONT: every registered listener arms a timer    *)
Sigcont ==
  /\ sigcontListeners > 0
  /\ signals < MaxSignals
  /\ signals' = signals + 1
  /\ checkTimers' = checkTimers + sigcontListeners
  /\ emitted' = << >>
  /\ UNCHANGED << opts, closed, currentIp, ipCheckInterval, closeCalls, closeEmits,
                  sigcontListeners, echoPending, notifyPending, ipEchoRequests,
                  notifyRequests >>
  /\ UNCHANGED negVars
  /\ UNCHANGED poolVars
  /\ UNCHANGED cliVars
  /\ UNCHANGED cfgVars
  /\ UNCHANGED histVars

(* _getCurrentIp's result: the echoed IP, or NoIp when the request failed  *)
EchoReplies == IPs \cup {NoIp}

(* a comparison without the check for a missing IP *)
IpUnchanged_NoNullCheck(newIp) == newIp = currentIp

(* `!newIp || newIp === this.currentIp` *)
IpUnchanged(newIp) == newIp = NoIp \/ newIp = currentIp

(* a check that gives up the interval timer when the echo request fails *)
EchoStep_StopsOnFailure(newIp) ==
  /\ echoPending > 0
  /\ echoPending' = echoPending - 1
  /\ IF IpUnchanged(newIp)
       THEN UNCHANGED << notifyPending, notifyRequests >>
       ELSE /\ notifyPending' =
                 notifyPending (+) SetToBag({[oldIp |-> currentIp, newIp |-> newIp]})
            /\ notifyRequests' = notifyRequests + 1
  /\ emitted' = << >>
  /\ ipCheckInterval' = IF newIp = NoIp THEN 0 ELSE ipCheckInterval
  /\ UNCHANGED << opts, closed, currentIp, closeCalls, closeEmits,
                  signals, checkTimers, sigcontListeners, ipEchoRequests >>
  /\ UNCHANGED negVars
  /\ UNCHANGED poolVars
  /\ UNCHANGED cliVars
  /\ UNCHANGED cfgVars

(* _checkForIpChange resumes with newIp *)
EchoStep(newIp) ==
  /\ echoPending > 0
  /\ echoPending' = echoPending - 1
  /\ IF IpUnchanged(newIp)
       THEN UNCHANGED << notifyPending, notifyRequests >>
       ELSE /\ notifyPending' =
                 notifyPending (+) SetToBag({[oldIp |-> currentIp, newIp |-> newIp]})
            /\ notifyRequests' = notifyRequests + 1
  /\ emitted' = << >>
  /\ UNCHANGED << opts, closed, currentIp, ipCheckInterval, closeCalls, closeEmits,
                  signals, checkTimers, sigcontListeners, ipEchoRequests >>
  /\ UNCHANGED negVars
  /\ UNCHANGED poolVars
  /\ UNCHANGED cliVars
  /\ UNCHANGED cfgVars

EchoReply(newIp) ==
  /\ EchoStep(newIp)
  /\ UNCHANGED histVars

(* the same step, recording in echoFailedAt when the request failed *)
EchoReplyTracked(newIp) ==
  /\ EchoStep(newIp)
  /\ echoFailedAt' = IF newIp = NoIp THEN ipEchoRequests ELSE echoFailedAt

(* ------------------------ Tunnel._notifyIpChange ----------------------- *)
(* A reply to the ip-change POST; status 0 is a rejection without a        *)
(* response, data is err.response.data.                                    *)
NotifyReplies ==
  [resolved : {TRUE}, status : {200, 204}, data : {[present |-> TRUE, message |-> ""]}]
  \cup [resolved : {FALSE}, status : {404, 403, 409, 500}, data : Bodies]
  \cup [resolved : {FALSE}, status : {0}, data : {[present |-> FALSE, message |-> ""]}]

NotifySucceeded(rep) == rep.resolved /\ rep.status = 200

(* `data.message` is read from an absent body: a TypeError leaves          *)
(* _notifyIpChange and is caught by _checkForIpChange.                     *)
NotifyThrows(rep) == ~rep.resolved /\ rep.status # 0 /\ ~rep.data.present

NotifyError(rep) ==
  IF rep.resolved THEN [code |-> NoCode, message |-> "Unexpected response"]
  ELSE IF rep.status = 0 THEN [code |-> NoCode, message |-> "Network Error"]
  ELSE IF rep.status = 404
    THEN [code |-> "ETUNNELEXPIRED", message |-> "Tunnel no longer exists"]
  ELSE IF rep.status = 403
    THEN [code |-> "EIPMISMATCH", message |-> "IP address mismatch"]
  ELSE IF rep.status = 409
    THEN [code |-> "ETUNNELCONFLICT", message |-> "Tunnel ID already in use at new IP"]
  ELSE [code |-> NoCode, message |-> MessageOr(rep.data, "Failed to update IP address")]

NotifyEmits(n, rep) ==
  IF NotifySucceeded(rep) THEN << IpChangeEv(n.oldIp, n.newIp, TRUE, NoError) >>
  ELSE IF NotifyThrows(rep) THEN << Ev("ip-change-error") >>
  ELSE << IpChangeEv(n.oldIp, n.newIp, FALSE, NotifyError(rep)),
          ErrorEv(NotifyError(rep)) >>

(* a notification that never stores the new IP *)
NotifyIp_KeepsOld(n, rep) == currentIp

(* a notification that stores the new IP whatever the broker answered *)
NotifyIp_Always(n, rep) == n.newIp

NotifyIp(n, rep) == IF NotifySucceeded(rep) THEN n.newIp ELSE currentIp

(* _notifyIpChange(oldIp, newIp) resumes with the broker's reply *)
NotifyReply(n, rep) ==
  /\ BagIn(n, notifyPending)
  /\ notifyPending' = notifyPending (-) SetToBag({n})
  /\ currentIp' = NotifyIp(n, rep)
  /\ emitted' = NotifyEmits(n, rep)
  /\ UNCHANGED << opts, closed, ipCheckInterval, closeCalls, closeEmits, signals,
                  checkTimers, sigcontListeners, echoPending, ipEchoRequests,
                  notifyRequests >>
  /\ UNCHANGED negVars
  /\ UNCHANGED poolVars
  /\ UNCHANGED cliVars
  /\ UNCHANGED cfgVars
  /\ UNCHANGED histVars

(* --------------------------- specification ----------------------------- *)
Next ==
  \/ Open
  \/ \E r \in InitReplies : InitReply(r)
  \/ RetryTimerFires
  \/ Close
  \/ SlotOpened
  \/ SlotDies
  \/ DestroyedSlotDies
  \/ IntervalTick
  \/ CheckTimerFires
  \/ Sigcont
  \/ \E ip \in EchoReplies : EchoReply(ip)
  \/ \E n \in BagToSet(notifyPending), rep \in NotifyReplies : NotifyReply(n, rep)

Spec == Init /\ [][Next]_vars

TypeOK ==
  /\ closed \in BOOLEAN
  /\ currentIp \in IPs \cup {NoIp}
  /\ ipCheckInterval \in {0, CHECK_INTERVAL}
  /\ initState \in {"idle", "requesting", "retryWait", "done"}
  /\ retryTimer \in {0, RETRY_DELAY}
  /\ tunnelCount \in Int

(* The pool's listeners read and write only the pool's variables and       *)
(* `closed`; the monitor's callbacks only the monitor's variables,         *)
(* `currentIp` and `closed`; negotiation precedes both.  A property of one *)
(* component is therefore checked in the system restricted to negotiation, *)
(* close() and that component's steps.                                     *)
NegNext ==
  \/ Open
  \/ \E r \in InitReplies : InitReply(r)
  \/ RetryTimerFires
  \/ Close

PoolNext ==
  \/ Open
  \/ \E r \in InitReplies : InitReply(r)
  \/ RetryTimerFires
  \/ Close
  \/ SlotOpened
  \/ SlotDies
  \/ DestroyedSlotDies

MonitorNext ==
  \/ Open
  \/ \E r \in InitReplies : InitReply(r)
  \/ RetryTimerFires
  \/ Close
  \/ IntervalTick
  \/ CheckTimerFires
  \/ Sigcont
  \/ \E ip \in EchoReplies : EchoReply(ip)
  \/ \E n \in BagToSet(notifyPending), rep \in NotifyReplies : NotifyReply(n, rep)

NegSpec == Init /\ [][NegNext]_vars

PoolSpec == Init /\ [][PoolNext]_vars

MonitorSpec == Init /\ [][MonitorNext]_vars

EchoNext ==
  \/ Open
  \/ \E r \in InitReplies : InitReply(r)
  \/ RetryTimerFires
  \/ Close
  \/ IntervalTick
  \/ CheckTimerFires
  \/ Sigcont
  \/ \E ip \in EchoReplies : EchoReplyTracked(ip)

EchoSpec == Init /\ [][EchoNext]_vars

(* fairness: a slot-open attempt that stays possible eventually completes  *)
FairPoolSpec == PoolSpec /\ WF_vars(SlotOpened)

(* ------------------- bin/tunnel-new.js (supervisor) -------------------- *)
MAX_RECONNECT_ATTEMPTS == 5
MaxInstances == 3
MaxIpChanges == 3

(* the codes the 'error' listener leaves to the 'ip-change' listener *)
IpChangeCodes == {"ETUNNELEXPIRED", "EIPMISMATCH", "ETUNNELCONFLICT"}

(* the change every modelled notification reports *)
CliNotification == [oldIp |-> "1.2.3.4", newIp |-> "5.6.7.8"]

(* a Tunnel object as the supervisor sees it *)
NewInstance ==
  [phase |-> "requesting", closed |-> FALSE, notifying |-> 0, fatal |-> FALSE]

(* the supervisor's own state, threaded through the listeners of one step *)
CliState ==
  [attempts |-> reconnectAttempts, delaying |-> delaying, exited |-> exited,
   called |-> 0]

(* an attemptReconnect without the budget check *)
AttemptReconnect_NoBudgetCheck(st) ==
  [st EXCEPT !.attempts = @ + 1, !.delaying = @ + 1, !.called = @ + 1]

(* attemptReconnect up to its first await: exhaustion exits the process,   *)
(* otherwise the counter is incremented and the delay timer is started.    *)
AttemptReconnect(st) ==
  IF st.attempts >= MAX_RECONNECT_ATTEMPTS
    THEN [st EXCEPT !.exited = "exhausted", !.called = @ + 1]
    ELSE [st EXCEPT !.attempts = @ + 1, !.delaying = @ + 1, !.called = @ + 1]

(* tunnel.on('ip-change', ...) *)
IpChangeListener(st, ev) ==
  IF ev.success THEN st
  ELSE IF argv.autoReconnect THEN AttemptReconnect(st)
  ELSE st

(* an 'error' listener that reconnects on every error *)
ErrorListener_NoFilter(st, ev) ==
  IF argv.autoReconnect THEN AttemptReconnect(st) ELSE st

(* tunnel.on('error', ...): the three IP-change codes return at once; with *)
(* auto-reconnect off the listener throws, back into the emitter.          *)
ErrorListener(st, ev) ==
  IF ev.code \in IpChangeCodes THEN st
  ELSE IF argv.autoReconnect THEN AttemptReconnect(st)
  ELSE st

(* one notification reaches the supervisor; process.exit never returns, so *)
(* nothing runs after it.                                                  *)
Deliver(st, ev) ==
  IF st.exited # "running" THEN st
  ELSE IF ev.type = "ip-change" THEN IpChangeListener(st, ev)
  ELSE IF ev.type = "error" THEN ErrorListener(st, ev)
  ELSE st

RECURSIVE DeliverAll(_, _)
DeliverAll(st, evs) ==
  IF evs = << >> THEN st
  ELSE DeliverAll(Deliver(st, Head(evs)), Tail(evs))

(* which handler of getUrl a negotiation reply runs *)
InitOutcome(r) ==
  IF r.resolved
    THEN IF r.status = 200 THEN "ok" ELSE "fail"
    ELSE IF r.status = 409 THEN "fail" ELSE "retry"

(* the replies the broker can give in its present condition *)
CliInitReplies ==
  IF brokerUp THEN InitReplies
  ELSE {r \in InitReplies : ~r.resolved /\ r.status = 0}

CliNotifyReplies ==
  IF brokerUp THEN NotifyReplies
  ELSE {rep \in NotifyReplies : ~rep.resolved /\ rep.status = 0}

(* createTunnel up to `await tunnelNew(...)`: a new Tunnel negotiates *)
CreateTunnel(insts) == Append(insts, NewInstance)

(* a createTunnel that keeps the counter *)
CreateTunnelResolved_NoReset(i) ==
  /\ tunnel' = i
  /\ resetFrom' = reconnectAttempts
  /\ reconnectAttempts' = reconnectAttempts
  /\ instances' = [instances EXCEPT ![i].phase = "active"]
  /\ exited' = exited

(* createTunnel after the await: tunnel = ..., reconnectAttempts = 0,      *)
(* setupTunnelListeners(tunnel)                                            *)
CreateTunnelResolved(i) ==
  /\ tunnel' = i
  /\ resetFrom' = reconnectAttempts
  /\ reconnectAttempts' = 0
  /\ instances' = [instances EXCEPT ![i].phase = "active"]
  /\ exited' = exited

(* createTunnel's catch: handleTunnelError(err) ends in process.exit(1)    *)
HandleTunnelError(i) ==
  /\ exited' = "error"
  /\ instances' = [instances EXCEPT ![i].phase = "failed"]
  /\ UNCHANGED << tunnel, reconnectAttempts, resetFrom >>

(* the program starts: argv is parsed and main calls createTunnel          *)
CliStart ==
  /\ instances = << >>
  /\ argv' \in [autoReconnect : BOOLEAN]
  /\ instances' = CreateTunnel(instances)
  /\ called' = 0
  /\ UNCHANGED << tunnel, reconnectAttempts, delaying, exited, resetFrom,
                  brokerUp, ipChanges >>
  /\ UNCHANGED libVars
  /\ UNCHANGED cfgVars

(* the negotiation GET of instance i settles *)
CliInitReply(i, r) ==
  /\ exited = "running"
  /\ i \in 1..Len(instances)
  /\ instances[i].phase = "requesting"
  /\ r \in CliInitReplies
  /\ IF InitOutcome(r) = "ok" THEN CreateTunnelResolved(i)
     ELSE IF InitOutcome(r) = "fail" THEN HandleTunnelError(i)
     ELSE /\ instances' = [instances EXCEPT ![i].phase = "retryWait"]
          /\ UNCHANGED << tunnel, reconnectAttempts, resetFrom, exited >>
  /\ called' = 0
  /\ UNCHANGED << argv, delaying, brokerUp, ipChanges >>
  /\ UNCHANGED libVars
  /\ UNCHANGED cfgVars

(* setTimeout(getUrl, 1000) of instance i fires *)
CliRetryTimerFires(i) ==
  /\ exited = "running"
  /\ i \in 1..Len(instances)
  /\ instances[i].phase = "retryWait"
  /\ instances' = [instances EXCEPT ![i].phase = "requesting"]
  /\ called' = 0
  /\ UNCHANGED << argv, tunnel, reconnectAttempts, delaying, exited, resetFrom,
                  brokerUp, ipChanges >>
  /\ UNCHANGED libVars
  /\ UNCHANGED cfgVars

(* a check of instance i (interval, baseline or manual) sees a new address *)
(* and posts the notification                                              *)
CliIpChanged(i) ==
  /\ exited = "running"
  /\ brokerUp
  /\ ipChanges < MaxIpChanges
  /\ i \in 1..Len(instances)
  /\ instances[i].phase = "active"
  /\ ~instances[i].closed
  /\ instances[i].notifying = 0
  /\ instances' = [instances EXCEPT ![i].notifying = 1]
  /\ ipChanges' = ipChanges + 1
  /\ called' = 0
  /\ UNCHANGED << argv, tunnel, reconnectAttempts, delaying, exited, resetFrom,
                  brokerUp >>
  /\ UNCHANGED libVars
  /\ UNCHANGED cfgVars

(* the notification of instance i settles; its events run the listeners    *)
CliNotifyReply(i, rep) ==
  /\ exited = "running"
  /\ i \in 1..Len(instances)
  /\ instances[i].notifying = 1
  /\ rep \in CliNotifyReplies
  /\ LET st == DeliverAll(CliState, NotifyEmits(CliNotification, rep))
     IN /\ reconnectAttempts' = st.attempts
        /\ delaying' = st.delaying
        /\ exited' = st.exited
        /\ called' = st.called
  /\ instances' =
       [instances EXCEPT
          ![i].notifying = 0,
          ![i].fatal = @ \/ (~NotifySucceeded(rep) /\ ~NotifyThrows(rep)
                              /\ NotifyError(rep).code \in IpChangeCodes)]
  /\ UNCHANGED << argv, tunnel, resetFrom, brokerUp, ipChanges >>
  /\ UNCHANGED libVars
  /\ UNCHANGED cfgVars

(* attemptReconnect after its delay: close the held tunnel if it is not    *)
(* closed, then createTunnel                                               *)
ReconnectDelayElapsed ==
  /\ exited = "running"
  /\ delaying > 0
  /\ Len(instances) < MaxInstances
  /\ delaying' = delaying - 1
  /\ instances' =
       CreateTunnel(IF tunnel # 0 /\ ~instances[tunnel].closed
                      THEN [instances EXCEPT ![tunnel].closed = TRUE]
                      ELSE instances)
  /\ called' = 0
  /\ UNCHANGED << argv, tunnel, reconnectAttempts, exited, resetFrom, brokerUp,
                  ipChanges >>
  /\ UNCHANGED libVars
  /\ UNCHANGED cfgVars

(* the broker becomes unreachable, for good *)
BrokerGoesDown ==
  /\ exited = "running"
  /\ brokerUp
  /\ instances # << >>
  /\ brokerUp' = FALSE
  /\ called' = 0
  /\ UNCHANGED << argv, instances, tunnel, reconnectAttempts, delaying, exited,
                  resetFrom, ipChanges >>
  /\ UNCHANGED libVars
  /\ UNCHANGED cfgVars

CliNext ==
  \/ CliStart
  \/ \E i \in 1..MaxInstances, r \in InitReplies : CliInitReply(i, r)
  \/ \E i \in 1..MaxInstances : CliRetryTimerFires(i)
  \/ \E i \in 1..MaxInstances : CliIpChanged(i)
  \/ \E i \in 1..MaxInstances, rep \in NotifyReplies : CliNotifyReply(i, rep)
  \/ ReconnectDelayElapsed
  \/ BrokerGoesDown

CliSpec == Init /\ [][CliNext]_vars

(* fairness: replies arrive and timers fire *)
FairCliSpec ==
  /\ CliSpec
  /\ WF_vars(\E i \in 1..MaxInstances, r \in InitReplies : CliInitReply(i, r))
  /\ WF_vars(\E i \in 1..MaxInstances : CliRetryTimerFires(i))
  /\ WF_vars(\E i \in 1..MaxInstances, rep \in NotifyReplies : CliNotifyReply(i, rep))
  /\ WF_vars(ReconnectDelayElapsed)

CliTypeOK ==
  /\ argv \in [autoReconnect : BOOLEAN]
  /\ Len(instances) <= MaxInstances
  /\ \A i \in 1..Len(instances) :
       instances[i] \in [phase : {"requesting", "retryWait", "active", "failed"},
                         closed : BOOLEAN, notifying : 0..1, fatal : BOOLEAN]
  /\ tunnel \in 0..Len(instances)
  /\ reconnectAttempts \in 0..MAX_RECONNECT_ATTEMPTS
  /\ delaying \in 0..(2 * MaxIpChanges)
  /\ exited \in {"running", "exhausted", "error"}
  /\ called \in 0..2
  /\ resetFrom \in -1..MAX_RECONNECT_ATTEMPTS
  /\ brokerUp \in BOOLEAN
  /\ ipChanges \in 0..MaxIpChanges

(* ---------------------- checkIpInterval (period) ----------------------- *)
MaxSeconds == 20
DEFAULT_SECONDS == 15
MIN_SECONDS == 5
MS_PER_SECOND == 1000

Absent == [kind |-> "absent", n |-> 0]
NaN == [kind |-> "nan", n |-> 0]
Num(n) == [kind |-> "num", n |-> n]

(* values of --check-ip-interval: not given, not a number, or seconds *)
CliIntervalInputs == {Absent, NaN} \cup {Num(n) : n \in -2..MaxSeconds}

(* values of opts.checkIpInterval handed to the library: milliseconds *)
LibIntervalInputs ==
  {Absent, NaN} \cup {Num(n) : n \in 0..MIN_SECONDS}
  \cup {Num(n * MS_PER_SECOND) : n \in 1..MaxSeconds}

(* yargs: default: 15, type: 'number' *)
ArgvCheckIpInterval(given) ==
  IF given.kind = "absent" THEN Num(DEFAULT_SECONDS) ELSE given

(* Math.max(5, x): NaN when x is NaN *)
MathMax5(x) ==
  IF x.kind = "nan" THEN NaN
  ELSE IF x.n > MIN_SECONDS THEN x ELSE Num(MIN_SECONDS)

(* checkIpInterval * 1000 *)
ToMilliseconds(x) ==
  IF x.kind = "nan" THEN NaN ELSE Num(x.n * MS_PER_SECOND)

(* createTunnel's tunnelOptions.checkIpInterval *)
CliCheckIpInterval(given) == ToMilliseconds(MathMax5(ArgvCheckIpInterval(given)))

(* this.opts.checkIpInterval || 15 * 1000: absent, NaN and 0 are falsy *)
LibCheckInterval(o) ==
  IF o.kind # "num" \/ o.n = 0 THEN CHECK_INTERVAL ELSE o.n

(* the program is started with --check-ip-interval given *)
ConfigureCli(given) ==
  /\ interval.via = "none"
  /\ interval' = [via |-> "cli", given |-> given,
                  ms |-> LibCheckInterval(CliCheckIpInterval(given))]
  /\ UNCHANGED libVars
  /\ UNCHANGED cliVars

(* a caller of the library passes opts.checkIpInterval itself *)
ConfigureLib(given) ==
  /\ interval.via = "none"
  /\ interval' = [via |-> "lib", given |-> given, ms |-> LibCheckInterval(given)]
  /\ UNCHANGED libVars
  /\ UNCHANGED cliVars

IntervalNext ==
  \/ \E given \in CliIntervalInputs : ConfigureCli(given)
  \/ \E given \in LibIntervalInputs : ConfigureLib(given)

IntervalSpec == Init /\ [][IntervalNext]_vars

(* ------------------------------ claims --------------------------------- *)
LiveSlots == slots.Connecting + slots.Open

(* C1: while the Tunnel is established and not closed, the number of slots *)
(* that are Connecting or Open is exactly max_conn (>= 1) after every      *)
(* step; _establish issued max_conn open attempts and every dead event     *)
(* added exactly one.                                                      *)
C1_PoolHoldsMaxConn ==
  (established /\ ~closed) =>
    /\ max_conn >= 1
    /\ LiveSlots = max_conn
    /\ OpenAttempts = max_conn + slots.Dead

C1_Witness ==
  established /\ ~closed /\ max_conn = 2 /\ slots.Dead >= 1 /\ LiveSlots = 2

(* C2: once established and not closed, with slot-open attempts completing *)
(* and deaths stopping, the pool reaches max_conn Open slots; and when one *)
(* slot is missing, the completion of its replacement restores max_conn.   *)
C2_PoolConverges ==
  /\ (established /\ ~closed) ~> (closed \/ slots.Open = max_conn)
  /\ [][(~closed /\ slots.Open = max_conn - 1 /\ SlotOpened)
          => slots'.Open = max_conn]_vars

C2_Witness ==
  established /\ ~closed /\ max_conn = 2 /\ slots.Dead >= 1 /\ slots.Open = 2

(* C3: any number (>= 1) of close() calls produces exactly one 'close'     *)
(* notification in total.                                                  *)
C3_CloseEmitsOnce == closeCalls >= 1 => closeEmits = 1

(* C4: once close() has been called, no step issues a slot-open attempt.   *)
C4_NoSlotOpenAfterClose == [][closed => OpenAttempts' = OpenAttempts]_vars

(* C5: once close() has been called, no step issues an IP-echo or an       *)
(* ip-change notification request or emits 'ip-change' or 'error', and no  *)
(* step after negotiation changes currentIp.                               *)
C5_MonitorQuiescentAfterClose ==
  [][closed =>
       /\ ipEchoRequests' = ipEchoRequests
       /\ notifyRequests' = notifyRequests
       /\ initState = "done" => currentIp' = currentIp
       /\ \A i \in 1..Len(emitted') : emitted'[i].type \notin {"ip-change", "error"}
    ]_vars

(* C6: when close() has been called while the negotiation retry loop is    *)
(* waiting, no further negotiation request is sent and the open callback   *)
(* is not invoked afterwards.                                              *)
C6_RetryLoopStopsOnClose ==
  [][(closed /\ initState = "retryWait") =>
       (initRequests' = initRequests /\ cbCalls' = cbCalls)]_vars

(* C7: a negotiation reply with status 409, resolved or rejected, is the   *)
(* last one: the open callback has received an error with code             *)
(* ESUBDOMAINCONFLICT and the broker's message (or the fixed fallback), no *)
(* retry is scheduled and no request beyond the answered one was issued.   *)
C7_ConflictFailsAtOnce ==
  \A i \in 1..Len(replies) :
    replies[i].status = 409 =>
      /\ i = Len(replies)
      /\ initState = "done"
      /\ retryTimer = 0
      /\ initRequests = i
      /\ cbCalls = 1
      /\ cbErr.code = "ESUBDOMAINCONFLICT"
      /\ cbErr.message =
           IF replies[i].body.present /\ replies[i].body.message = BrokerMessage
             THEN BrokerMessage
             ELSE ConflictFallback

C7_Witness ==
  /\ Len(replies) = 1
  /\ replies[1].status = 409
  /\ ~replies[1].resolved
  /\ initRequests = 1
  /\ cbErr.message = BrokerMessage

(* C8: a negotiation reply with a non-success status other than 409 is the *)
(* last one: the open callback has received an error without the conflict  *)
(* code, carrying the broker's message or the generic fallback, and no     *)
(* retry is scheduled.                                                     *)
C8_ServerErrorNotRetried ==
  \A i \in 1..Len(replies) :
    replies[i].status = 500 =>
      /\ i = Len(replies)
      /\ initState = "done"
      /\ retryTimer = 0
      /\ cbCalls = 1
      /\ cbErr.code = NoCode
      /\ cbErr.message =
           IF replies[i].body.present /\ replies[i].body.message = BrokerMessage
             THEN BrokerMessage
             ELSE ServerFallback

NetworkFailure(rep) == ~rep.resolved /\ rep.status = 0

(* C9: when the first k replies are network failures and reply k+1 is a    *)
(* success, exactly k+1 requests were issued and the open callback was     *)
(* invoked once, without error; before that it was not invoked, and every  *)
(* pending retry is scheduled with a delay of 1000 ms.                     *)
C9_RetryUntilReachable ==
  /\ initState = "retryWait" => (retryTimer = 1000 /\ cbCalls = 0)
  /\ initState \in {"idle", "requesting"} => (retryTimer = 0 /\ cbCalls = 0)
  /\ ( /\ Len(replies) >= 1
       /\ replies[Len(replies)].resolved
       /\ replies[Len(replies)].status = 200
       /\ \A i \in 1..(Len(replies) - 1) : NetworkFailure(replies[i]) )
     => ( /\ initState = "done"
          /\ initRequests = Len(replies)
          /\ cbCalls = 1
          /\ cbErr = NoError
          /\ established )

C9_Witness ==
  /\ Len(replies) = 3
  /\ NetworkFailure(replies[1])
  /\ NetworkFailure(replies[2])
  /\ replies[3].status = 200
  /\ initRequests = 3
  /\ cbCalls = 1

(* C10: an IP check whose echo request yields no IP, or the current IP,    *)
(* sends no notification request, emits no 'ip-change' event and leaves    *)
(* currentIp unchanged.                                                    *)
C10_UnchangedIpNoAction ==
  [][\A ip \in EchoReplies :
       (EchoReply(ip) /\ (ip = NoIp \/ ip = currentIp)) =>
         /\ notifyRequests' = notifyRequests
         /\ notifyPending' = notifyPending
         /\ currentIp' = currentIp
         /\ \A i \in 1..Len(emitted') : emitted'[i].type # "ip-change"
    ]_vars

C10_Witness ==
  /\ established
  /\ ipEchoRequests >= 1
  /\ echoPending = 0
  /\ notifyRequests = 0
  /\ currentIp \in IPs

(* C11: when the broker acknowledges a notification (oldIp, newIp) with    *)
(* status 200, currentIp becomes newIp and the step emits exactly one      *)
(* notification: 'ip-change' with oldIp, newIp and success: true (hence no *)
(* 'error').                                                               *)
C11_AckUpdatesIp ==
  [][\A n \in BagToSet(notifyPending),
        rep \in {x \in NotifyReplies : x.resolved /\ x.status = 200} :
       NotifyReply(n, rep) =>
         /\ currentIp' = n.newIp
         /\ emitted' =
              << [type |-> "ip-change", oldIp |-> n.oldIp, newIp |-> n.newIp,
                  success |-> TRUE, code |-> NoCode, message |-> ""] >>
    ]_vars

C11_Witness ==
  /\ Len(emitted) = 1
  /\ emitted[1].type = "ip-change"
  /\ emitted[1].success
  /\ emitted[1].oldIp = "1.2.3.4"
  /\ emitted[1].newIp = "5.6.7.8"
  /\ currentIp = "5.6.7.8"

(* the error code the broker's status stands for *)
C12_CodeOf(status) ==
  IF status = 404 THEN "ETUNNELEXPIRED"
  ELSE IF status = 403 THEN "EIPMISMATCH"
  ELSE IF status = 409 THEN "ETUNNELCONFLICT"
  ELSE NoCode

(* C12: every failed notification, whatever the reply, emits exactly one   *)
(* 'ip-change' with success: false followed by exactly one 'error', both   *)
(* carrying the error kind the status determines.                          *)
C12_FailureEmitsPair ==
  [][\A n \in BagToSet(notifyPending), rep \in NotifyReplies :
       (NotifyReply(n, rep) /\ ~(rep.resolved /\ rep.status = 200)) =>
         /\ Len(emitted') = 2
         /\ emitted'[1].type = "ip-change"
         /\ ~emitted'[1].success
         /\ emitted'[1].code = C12_CodeOf(IF rep.resolved THEN 0 ELSE rep.status)
         /\ emitted'[2].type = "error"
         /\ emitted'[2].code = emitted'[1].code
    ]_vars

(* C13: once the session is established, currentIp changes only in a step  *)
(* in which a notification is acknowledged with success, and then to that  *)
(* notification's newIp.                                                   *)
C13_IpChangesOnlyOnAck ==
  [][(established /\ currentIp' # currentIp) =>
       \E n \in BagToSet(notifyPending), rep \in NotifyReplies :
         /\ NotifyReply(n, rep)
         /\ rep.resolved
         /\ rep.status = 200
         /\ currentIp' = n.newIp
    ]_vars

C13_Witness ==
  /\ established
  /\ Len(emitted) = 2
  /\ emitted[1].type = "ip-change"
  /\ ~emitted[1].success
  /\ emitted[1].code = "ETUNNELEXPIRED"
  /\ emitted[1].newIp # currentIp
  /\ currentIp = emitted[1].oldIp

(* number of slots that have reached Open so far *)
C19_OpenedSoFar == slots.Open + slots.Destroyed + slots.Dead

(* C19: 'url' has been emitted exactly once as soon as one slot has        *)
(* reached Open and not at all before; the only step that emits it is the  *)
(* one in which the first slot opens, and it emits nothing else.           *)
C19_UrlOnceAtFirstOpen ==
  /\ [](urlEmits = IF C19_OpenedSoFar > 0 THEN 1 ELSE 0)
  /\ [][(\E i \in 1..Len(emitted') : emitted'[i].type = "url") =>
          /\ SlotOpened
          /\ C19_OpenedSoFar = 0
          /\ emitted' = << Ev("url") >>
       ]_vars

C19_Witness ==
  /\ urlEmits = 1
  /\ slots.Dead >= 1
  /\ slots.Open >= 2
  /\ emitted = << >>

(* C14: once the broker is unreachable for good and a reconnect episode    *)
(* has begun, the supervisor goes through its budget of 5 attempts and     *)
(* then raises the terminal exhaustion signal.                             *)
C14_FiveAttemptsThenExhaustion ==
  (~brokerUp /\ reconnectAttempts >= 1 /\ exited = "running")
    ~> (exited = "exhausted")

(* C15: every step in which a session is successfully established leaves   *)
(* the reconnect counter at 0, and no other step brings a non-zero counter *)
(* back to 0.                                                              *)
C15_ResetOnlyOnEstablish ==
  /\ [][\A i \in 1..Len(instances),
           r \in {x \in InitReplies : InitOutcome(x) = "ok"} :
          CliInitReply(i, r) => reconnectAttempts' = 0
       ]_vars
  /\ [][(reconnectAttempts # 0 /\ reconnectAttempts' = 0) =>
          \E i \in 1..Len(instances),
             r \in {x \in InitReplies : InitOutcome(x) = "ok"} :
            CliInitReply(i, r)
       ]_vars

C15_Witness ==
  /\ reconnectAttempts = 0
  /\ resetFrom = 3
  /\ tunnel >= 2
  /\ instances[tunnel].phase = "active"
  /\ exited = "running"

(* C16: a reconnect attempt whose negotiation returns an error does not    *)
(* end the program with that error: the only way a reconnect episode with  *)
(* failing re-establishments ends is budget exhaustion.                    *)
C16_FailedReconnectRetries ==
  (\E i \in 2..Len(instances) : instances[i].phase = "failed") =>
    exited \in {"running", "exhausted"}

(* C17: with auto-reconnect on, a failed notification classified as        *)
(* ETUNNELEXPIRED, EIPMISMATCH or ETUNNELCONFLICT makes exactly one call   *)
(* of attemptReconnect in its step: the 'ip-change' listener makes it and  *)
(* the 'error' listener, given that code, makes none.                      *)
C17_CodedFailureReconnectsOnce ==
  [][\A i \in 1..Len(instances),
        rep \in {x \in NotifyReplies :
                  /\ ~NotifySucceeded(x)
                  /\ ~NotifyThrows(x)
                  /\ NotifyError(x).code \in IpChangeCodes} :
       (argv.autoReconnect /\ CliNotifyReply(i, rep)) =>
         LET evs == NotifyEmits(CliNotification, rep)
             st1 == Deliver(CliState, evs[1])
             st2 == Deliver(st1, evs[2])
         IN /\ evs[1].type = "ip-change"
            /\ evs[2].type = "error"
            /\ evs[2].code \in IpChangeCodes
            /\ st1.called = 1
            /\ st2.called = st1.called
            /\ called' = 1
    ]_vars

C17_Witness ==
  /\ argv.autoReconnect
  /\ called = 1
  /\ reconnectAttempts = 1
  /\ delaying = 1
  /\ tunnel = 1
  /\ instances[1].fatal
  /\ exited = "running"

(* C18: with auto-reconnect off, a session that received a failed          *)
(* notification classified as ETUNNELEXPIRED, EIPMISMATCH or               *)
(* ETUNNELCONFLICT is no longer an open Active session.                    *)
C18_CodedFailureEndsSession ==
  \A i \in 1..Len(instances) :
    (~argv.autoReconnect /\ instances[i].fatal) =>
      \/ exited # "running"
      \/ instances[i].closed
      \/ instances[i].phase # "active"

(* C20: a 'dead' event emits nothing (so no 'error' and no listener of the *)
(* supervisor runs), leaves closed, the reconnect counter and the pending  *)
(* reconnects alone, decrements tunnelCount, and makes one replacement     *)
(* open attempt, or none once the Tunnel is closed.                        *)
C20_SlotDeathNotFatal ==
  [][(SlotDies \/ DestroyedSlotDies) =>
       /\ emitted' = << >>
       /\ closed' = closed
       /\ reconnectAttempts' = reconnectAttempts
       /\ delaying' = delaying
       /\ called' = called
       /\ exited' = exited
       /\ closeEmits' = closeEmits
       /\ tunnelCount' = tunnelCount - 1
       /\ OpenAttempts' = OpenAttempts + (IF closed THEN 0 ELSE 1)
       /\ UNCHANGED << currentIp, ipCheckInterval, urlEmits, initState, cbCalls >>
    ]_vars

C20_Witness ==
  /\ ~closed
  /\ slots.Dead >= 1
  /\ slots.Connecting >= 1
  /\ LiveSlots = max_conn
  /\ emitted = << >>
  /\ exited = "running"
  /\ reconnectAttempts = 0

(* C21: close() leaves no slot Open; closed never becomes false again; a   *)
(* slot that opens once the Tunnel is closed is destroyed in that step.    *)
(* Hence from close() on the number of Open slots is 0 and stays 0.        *)
C21_NoOpenSlotAfterClose ==
  /\ [](closed => slots.Open = 0)
  /\ [][closed => closed']_vars
  /\ [][(closed /\ SlotOpened) =>
          /\ slots'.Open = 0
          /\ slots'.Destroyed = slots.Destroyed + 1
       ]_vars

C21_Witness ==
  /\ closed
  /\ emitted = << Ev("url") >>
  /\ slots.Open = 0
  /\ slots.Destroyed = 1
  /\ slots.Connecting = 1

(* C22: a failed IP-echo request emits nothing, sends no notification and  *)
(* leaves currentIp, the interval timer and the pending check timers as    *)
(* they were; after any failure, while the Tunnel is not closed, the       *)
(* interval timer is armed and its next tick runs a check.                 *)
C22_EchoFailureKeepsTimer ==
  /\ [][EchoReplyTracked(NoIp) =>
          /\ emitted' = << >>
          /\ currentIp' = currentIp
          /\ notifyRequests' = notifyRequests
          /\ notifyPending' = notifyPending
          /\ ipCheckInterval' = ipCheckInterval
          /\ checkTimers' = checkTimers
          /\ closed' = closed
       ]_vars
  /\ []((echoFailedAt > 0 /\ ~closed) => ipCheckInterval = CHECK_INTERVAL)
  /\ []((echoFailedAt > 0 /\ ~closed /\ ipEchoRequests < MaxChecks) =>
          ENABLED (IntervalTick /\ ipEchoRequests' = ipEchoRequests + 1))

C22_Witness ==
  /\ echoFailedAt >= 1
  /\ ipEchoRequests > echoFailedAt
  /\ ~closed
  /\ ipCheckInterval = CHECK_INTERVAL
  /\ checkTimers = 0
  /\ signals = 0
  /\ notifyRequests = 0

(* C23: whatever value checkIpInterval is configured with, the period of   *)
(* the interval timer is at least 5 seconds, and it is 15 seconds when the *)
(* option is not given.                                                    *)
C23_IntervalAtLeastFiveSeconds ==
  interval.via # "none" =>
    /\ interval.ms >= MIN_SECONDS * MS_PER_SECOND
    /\ interval.given.kind = "absent" => interval.ms = DEFAULT_SECONDS * MS_PER_SECOND

(* C24: with auto-reconnect on, a failed notification of the generic kind  *)
(* (no ETUNNELEXPIRED, EIPMISMATCH or ETUNNELCONFLICT code) makes exactly  *)
(* one call of attemptReconnect in its step and raises the reconnect       *)
(* counter by at most one.                                                 *)
C24_GenericFailureReconnectsOnce ==
  [][\A i \in 1..Len(instances),
        rep \in {x \in NotifyReplies :
                  /\ ~NotifySucceeded(x)
                  /\ ~NotifyThrows(x)
                  /\ NotifyError(x).code \notin IpChangeCodes} :
       (argv.autoReconnect /\ CliNotifyReply(i, rep)) =>
         /\ called' = 1
         /\ reconnectAttempts' <= reconnectAttempts + 1
    ]_vars

(* C25: checks that overlap and observe the same new IP notify the broker  *)
(* once: no two notification requests for the same (oldIp, newIp) are in   *)
(* flight together.                                                        *)
C25_OneNotificationPerChange ==
  \A n \in BagToSet(notifyPending) : CopiesIn(n, notifyPending) <= 1

(* the instances that are established and not closed *)
C26_LiveInstances ==
  {i \in 1..Len(instances) : instances[i].phase = "active" /\ ~instances[i].closed}

(* C26: under the reconnect supervisor at most one Tunnel instance is      *)
(* established and not closed at any time.                                 *)
C26_AtMostOneLiveSession == Cardinality(C26_LiveInstances) <= 1

(* C27: the reconnect counter is always between 0 and the budget, and a    *)
(* step starts reconnect cycles (delay timers) only by incrementing the    *)
(* counter, once per cycle, from a value below the budget.                 *)
C27_CounterWithinBudget ==
  /\ [](reconnectAttempts \in 0..MAX_RECONNECT_ATTEMPTS)
  /\ [][delaying' > delaying =>
          /\ reconnectAttempts < MAX_RECONNECT_ATTEMPTS
          /\ reconnectAttempts' = reconnectAttempts + (delaying' - delaying)
          /\ reconnectAttempts' <= MAX_RECONNECT_ATTEMPTS
       ]_vars

C27_Witness ==
  /\ reconnectAttempts = MAX_RECONNECT_ATTEMPTS
  /\ exited = "running"
  /\ delaying >= 1
  /\ called = 1

====
